---- MODULE Spec2Model ----
(***************************************************************************)
(* UPLO5 feed generation: the FeedProvider (providers/FeedProvider.tsx),   *)
(* the FeedLoadingService worker pool (processQueue / processJob) and the  *)
(* RorkAIClient (validateProductForGeneration, generateVirtualTryOn,       *)
(* retryWithBackoff).                                                      *)
(*                                                                         *)
(* JavaScript runs one handler at a time, so every action below is one     *)
(* handler or one promise continuation, run to its next await.             *)
(*                                                                         *)
(* addJobs, getEntries and getWorkerStats are called by FeedProvider but   *)
(* their bodies are not part of the sources; they are modelled from the    *)
(* design document (EnsureWindow, GetEntries, GetStats).  The circuit      *)
(* breaker is likewise modelled from the design document, as an observer   *)
(* of the generation calls: the worker code reports to it and never asks   *)
(* it.                                                                     *)
(*                                                                         *)
(* Spec is the worker pool under scrolling within the first window;        *)
(* SpecBreaker adds the breaker, SpecScroll a jump past the initial        *)
(* positions, SpecFeed the update loop, SpecReady a choice of images.      *)
(* SpecQueue is the pool with a jump of the cursor and an API that always  *)
(* answers with an image.  SpecClient runs retryWithBackoff and            *)
(* generateWithFallback on their own.  SpecLaunch is the app from its      *)
(* start (RootLayout, Index, onboarding) with the pool left to drain, under*)
(* the fairness of the event loop.  SpecMount is the provider's mount,     *)
(* initialisation and unmount.  SpecCatalog is the catalog database with   *)
(* rebuild_feed_items (database/schema.sql).  SpecScripts runs test-api.sh *)
(* and monitor.sh against an API that answers in every way.                *)
(***************************************************************************)
EXTENDS Integers, Sequences, FiniteSets, Bags, TLC

\* ------------------------------------------------------------ constants

\* FeedLoadingService.MAX_WORKERS is 30 in the source; the pool is checked
\* at a scaled-down size.
MAX_WORKERS == 2

\* FeedProvider.initialize enqueues the first 50 positions: more than the
\* pool holds, so the initial queue overflows it.  Scaled with the pool.
INITIAL_POSITIONS == MAX_WORKERS + 1

\* The currentIndex effect enqueues the next 30 positions: as many as the
\* pool holds.  Scaled with the pool.
WINDOW_SIZE == MAX_WORKERS

\* The largest index the user scrolls to.
MaxCursor == 1

\* RorkAIClient.MAX_RETRIES
MAX_RETRIES == 3

\* Circuit breaker: OPEN after 5 consecutive failures
FAILURE_THRESHOLD == 5

\* The largest index the user jumps to: past every initial position.
FarCursor == INITIAL_POSITIONS

Max(a, b) == IF a >= b THEN a ELSE b

MaxPosition == Max(INITIAL_POSITIONS - 1, FarCursor + WINDOW_SIZE - 1)

Positions == 0 .. MaxPosition

\* ------------------------------------------------------------- products

\* A URL is the sequence of its characters.
HttpPrefix == <<"h", "t", "t", "p">>

HttpUrl == <<"h", "t", "t", "p", ":", "a">>

FtpUrl == <<"f", "t", "p", ":", "a">>

BlankUrl == <<>>

\* `product` as the catalog may return it: null/undefined (present = FALSE),
\* image_urls missing or not an array (isArray = FALSE), or a list of URLs.
NullProduct == [present |-> FALSE, isArray |-> FALSE, image_urls |-> <<>>]

NotArrayProduct == [present |-> TRUE, isArray |-> FALSE, image_urls |-> <<>>]

EmptyUrlsProduct == [present |-> TRUE, isArray |-> TRUE, image_urls |-> <<>>]

BlankUrlProduct == [present |-> TRUE, isArray |-> TRUE, image_urls |-> <<BlankUrl>>]

BadUrlProduct == [present |-> TRUE, isArray |-> TRUE, image_urls |-> <<FtpUrl, HttpUrl>>]

GoodProduct == [present |-> TRUE, isArray |-> TRUE, image_urls |-> <<HttpUrl>>]

Products ==
  {NullProduct, NotArrayProduct, EmptyUrlsProduct, BlankUrlProduct, BadUrlProduct, GoodProduct}

\* String.prototype.startsWith
StartsWith(s, prefix) ==
  /\ Len(s) >= Len(prefix)
  /\ SubSeq(s, 1, Len(prefix)) = prefix

\* validateProductForGeneration(product): boolean
validateProductForGeneration(product) ==
  IF ~product.present THEN FALSE
  ELSE IF ~product.isArray THEN FALSE
  ELSE IF Len(product.image_urls) = 0 THEN FALSE
  ELSE LET imageUrl == product.image_urls[1] IN
       IF imageUrl = BlankUrl \/ ~StartsWith(imageUrl, HttpPrefix) THEN FALSE
       ELSE TRUE

\* ---------------------------------------------------------------- state

VARIABLES
  db,                   \* catalog database: products, product_images, feed_items
  testApi,              \* one run of test-api.sh
  monitor,              \* one run of monitor.sh
  onboarding,           \* onboarding screen: selectedImage, isLoading, handleContinue
  mounted,              \* the FeedProvider is mounted
  timer,                \* the update loop's interval is running
  route,                \* the screen shown: "index" | "onboarding" | "feed"
  fallback,             \* one generateWithFallback call
  retry,                \* one retryWithBackoff call
  userPhoto,            \* AsyncStorage holds a photo under USER_PHOTO_KEY
  initPc,               \* FeedProvider.initialize: "loading" | "done"
  service,              \* loadingServiceRef.current is set
  isReady,              \* FeedProvider isReady
  currentIndex,         \* FeedProvider currentIndex
  jobQueue,             \* FeedLoadingService.jobQueue
  activeWorkers,        \* FeedLoadingService.activeWorkers
  inflight,             \* bag of the processJob calls that have not settled
  cache,                \* position -> entry (imageCache / PositionCache)
  consecutiveFailures,  \* circuit breaker's consecutive-failure counter
  breaker,              \* circuit breaker: status, cooldown, trial calls out
  outcomes,             \* the latest generation-call outcomes, oldest first
  recentWindow,         \* the positions of the latest addJobs call
  feed,                 \* FeedProvider feed
  workerStats,          \* FeedProvider workerStats
  last                  \* the handler that ran last, with what it saw and did

vars ==
  <<db, testApi, monitor, onboarding, mounted, timer,
    route, fallback, retry, userPhoto, initPc, service, isReady, currentIndex, jobQueue, activeWorkers,
    inflight, cache, consecutiveFailures, breaker, outcomes, recentWindow, feed,
    workerStats, last>>

\* The images the Rork API may answer with (data URLs).
GeneratedImage == "data:image1"

OtherImage == "data:image2"

Images == {GeneratedImage, OtherImage}

NoImage == ""

AbsentEntry == [state |-> "Absent", product |-> NullProduct, imageUrl |-> NoImage]

PendingEntry == [state |-> "Pending", product |-> NullProduct, imageUrl |-> NoImage]

ReadyEntry(product, imageUrl) ==
  [state |-> "Ready", product |-> product, imageUrl |-> imageUrl]

NewJob(p) == [position |-> p, attempt |-> 0]

\* A processJob call in flight: where it is suspended, with its locals.
Running(job) ==
  [position |-> job.position, pc |-> "fetchProduct", retries |-> MAX_RETRIES,
   calls |-> 0, fails |-> 0, product |-> NullProduct]

Jobs == BagToSet(inflight)

\* Number of processJob calls in flight for position p.
InFlightCount(p) ==
  LET js == {j \in Jobs : j.position = p} IN
  IF js = {} THEN 0
  ELSE BagCardinality([j \in js |-> CopiesIn(j, inflight)])

RunningPositions == {j.position : j \in Jobs}

\* Number of queued jobs for position p.
QueuedCount(q, p) == Cardinality({i \in 1 .. Len(q) : q[i].position = p})

\* A buffer health is the fraction num / den.
ZeroHealth == [num |-> 0, den |-> 1]

\* The breaker's base cooldown, in units of the base cooldown.
BASE_COOLDOWN == 1

ClosedBreaker == [status |-> "Closed", cooldown |-> BASE_COOLDOWN, trials |-> 0]

\* What neither the FeedProvider nor the worker pool touches.
sideVars == <<db, testApi, monitor, onboarding, mounted>>

\* The catalog database before any row is inserted.
EmptyDb == [products |-> {}, product_images |-> {}, feed_items |-> {}]

\* test-api.sh and monitor.sh before they are run.
IdleTestApi ==
  [pc |-> "checks", check |-> 0, PASSED |-> 0, FAILED |-> 0, exit |-> "none"]

IdleMonitor ==
  [pc |-> "health", health_status |-> 0, jq |-> FALSE, catalog_size |-> -1,
   duration |-> 0, ALERTS |-> 0, status |-> "none", exit |-> "none"]

\* The onboarding screen as it is first rendered.
IdleOnboarding == [selectedImage |-> FALSE, isLoading |-> FALSE, pc |-> "idle"]

\* retryWithBackoff and generateWithFallback before they are called.
IdleRetry ==
  [pc |-> "idle", retries |-> MAX_RETRIES, calls |-> 0, delays |-> <<>>,
   errors |-> <<>>, thrown |-> "none"]

IdleFallback ==
  [pc |-> "idle", tried |-> <<>>, substitutions |-> 0, generateCalls |-> 0,
   error |-> "none"]

Init ==
  /\ db = EmptyDb
  /\ testApi = IdleTestApi
  /\ monitor = IdleMonitor
  /\ onboarding = IdleOnboarding
  /\ mounted = TRUE
  /\ timer = FALSE
  /\ route = "index"
  /\ fallback = IdleFallback
  /\ retry = IdleRetry
  /\ userPhoto \in BOOLEAN
  /\ initPc = "loading"
  /\ service = FALSE
  /\ isReady = FALSE
  /\ currentIndex = 0
  /\ jobQueue = <<>>
  /\ activeWorkers = 0
  /\ inflight = EmptyBag
  /\ cache = [p \in Positions |-> AbsentEntry]
  /\ consecutiveFailures = 0
  /\ breaker = ClosedBreaker
  /\ outcomes = <<>>
  /\ recentWindow = <<>>
  /\ feed = <<>>
  /\ workerStats = [active |-> 0, max |-> MAX_WORKERS, bufferHealth |-> ZeroHealth]
  /\ last = [op |-> "init"]

\* --------------------------------------------- FeedLoadingService (queue)

\* Faulty variant: only a Ready position is skipped, so a position that is
\* already queued or being executed gets a second job.
NeedsJobUnlessReady(entry) == entry.state # "Ready"

\* Faulty variant: only a Pending position is skipped, so a Ready position
\* is reset and generated again.
NeedsJobUnlessPending(entry) == entry.state # "Pending"

\* addJobs(positions), the design's EnsureWindow: a position with no entry
\* (or a failed one) gets an entry and one job at attempt 0; a position
\* that is pending, claimed or ready is left alone.
NeedsJob(entry) == entry.state \in {"Absent", "Failed"}

RECURSIVE addJobs(_, _, _)
addJobs(q, c, positions) ==
  IF positions = <<>> THEN [jobQueue |-> q, cache |-> c]
  ELSE LET p == Head(positions) IN
       IF NeedsJob(c[p])
       THEN addJobs(Append(q, NewJob(p)), [c EXCEPT ![p] = PendingEntry], Tail(positions))
       ELSE addJobs(q, c, Tail(positions))

\* Faulty variant: a position with no entry is handed out as it is.
getEntriesRaw(c, positions) == [i \in 1 .. Len(positions) |-> c[positions[i]]]

\* getEntries(positions), the design's GetEntries: a snapshot, a position
\* with no entry reported as Pending.
getEntries(c, positions) ==
  [i \in 1 .. Len(positions) |->
     IF c[positions[i]].state = "Absent" THEN PendingEntry ELSE c[positions[i]]]

\* Faulty variant: every Ready entry counts, inside the window or not.
ReadyCountAll(c, window) == Cardinality({p \in Positions : c[p].state = "Ready"})

\* The number of Ready positions of the window.
RECURSIVE ReadyCount(_, _)
ReadyCount(c, window) ==
  IF window = <<>> THEN 0
  ELSE (IF c[Head(window)].state = "Ready" THEN 1 ELSE 0) + ReadyCount(c, Tail(window))

\* bufferHealth = readyCountInWindow / windowSize, 0 for an empty window
BufferHealth(ready, size) ==
  IF size = 0 THEN ZeroHealth ELSE [num |-> ready, den |-> size]

\* getWorkerStats(), the design's GetStats
getWorkerStats(active, c, window) ==
  [active |-> active, max |-> MAX_WORKERS,
   bufferHealth |-> BufferHealth(ReadyCount(c, window), Len(window))]

\* Faulty variant: `<=` for `<`, one job too many is started.
CanStartOffByOne(active, q) == active <= MAX_WORKERS /\ Len(q) > 0

\* processQueue's loop condition
CanStart(active, q) == active < MAX_WORKERS /\ Len(q) > 0

\* Faulty variant: the job behind the head is removed with it
\* (splice(0, 2) for shift()).
ShiftedLosesNext(q) == IF Len(q) > 1 THEN Tail(Tail(q)) ELSE Tail(q)

\* Faulty variant: the head is read (jobQueue[0]) but not removed.
ShiftedKeepsHead(q) == q

\* the queue after this.jobQueue.shift()
Shifted(q) == Tail(q)

\* processQueue(userImageBase64): the synchronous while loop; every job it
\* takes starts processJob, which runs up to its first await (fetchProduct).
RECURSIVE processQueue(_, _, _)
processQueue(q, active, running) ==
  IF CanStart(active, q)
  THEN LET job == Head(q) IN
       processQueue(Shifted(q), active + 1, running (+) SetToBag({Running(job)}))
  ELSE [jobQueue |-> q, activeWorkers |-> active, inflight |-> running]

\* Array.from({ length: n }, (_, i) => from + i)
ArrayFrom(n, from) == [i \in 1 .. n |-> from + i - 1]

\* addJobs(positions) followed by processQueue(userPhoto), as both callers do
EnsureAndProcess(window) ==
  LET added == addJobs(jobQueue, cache, window)
      run == processQueue(added.jobQueue, activeWorkers, inflight)
  IN /\ cache' = added.cache
     /\ jobQueue' = run.jobQueue
     /\ activeWorkers' = run.activeWorkers
     /\ inflight' = run.inflight
     /\ recentWindow' = window
     /\ last' = [op |-> "ensure", window |-> window]

\* ----------------------------------------------------------- FeedProvider

\* initialize(): load the photo; without one, return; otherwise create the
\* service, enqueue the first positions, start the queue, set isReady.
Initialize ==
  /\ initPc = "loading"
  /\ initPc' = "done"
  /\ IF userPhoto
     THEN /\ service' = TRUE
          /\ EnsureAndProcess(ArrayFrom(INITIAL_POSITIONS, 0))
          /\ isReady' = TRUE
          /\ timer' = TRUE
     ELSE /\ last' = [op |-> "noPhoto"]
          /\ UNCHANGED <<service, isReady, jobQueue, activeWorkers, inflight, cache,
                         recentWindow, timer>>
  /\ UNCHANGED <<sideVars, route, fallback, retry, userPhoto, currentIndex, consecutiveFailures,
                 breaker, outcomes, feed, workerStats>>

\* Faulty variant: the effect lacks its guard and enqueues without a service.
SetCurrentIndexUnguarded(c) ==
  /\ c # currentIndex
  /\ currentIndex' = c
  /\ EnsureAndProcess(ArrayFrom(WINDOW_SIZE, c))
  /\ UNCHANGED <<sideVars, timer, route, fallback, retry, userPhoto, initPc, service, isReady, consecutiveFailures,
                 breaker, outcomes, feed, workerStats>>

\* setCurrentIndex(c) and the effect on [currentIndex]: nothing before the
\* service exists; otherwise enqueue the next positions and start the queue.
SetCurrentIndex(c) ==
  /\ c # currentIndex
  /\ currentIndex' = c
  /\ IF service /\ userPhoto
     THEN EnsureAndProcess(ArrayFrom(WINDOW_SIZE, c))
     ELSE /\ last' = [op |-> "noService"]
          /\ UNCHANGED <<jobQueue, activeWorkers, inflight, cache, recentWindow>>
  /\ UNCHANGED <<sideVars, timer, route, fallback, retry, userPhoto, initPc, service, isReady, consecutiveFailures,
                 breaker, outcomes, feed, workerStats>>

\* The update loop's closure holds the currentIndex of the first render.
ClosureIndex == 0

\* The setInterval callback of initialize(): read the stats and the
\* entries of the first ClosureIndex + 30 positions into React state.
UpdateLoop ==
  /\ timer
  /\ service
  /\ workerStats' = getWorkerStats(activeWorkers, cache, recentWindow)
  /\ feed' = getEntries(cache, ArrayFrom(ClosureIndex + WINDOW_SIZE, 0))
  /\ last' = [op |-> "update"]
  /\ UNCHANGED <<sideVars, timer, route, fallback, retry, userPhoto, initPc, service, isReady, currentIndex, jobQueue,
                 activeWorkers, inflight, cache, consecutiveFailures, breaker,
                 outcomes, recentWindow>>

\* ---------------------------------------------------- processJob (worker)

Replace(j, j2) == (inflight (-) SetToBag({j})) (+) SetToBag({j2})

\* processJob's catch block: log, then await fetchDifferentProduct().
Caught(j) == [j EXCEPT !.pc = "fetchDifferent", !.product = NullProduct]

\* The circuit breaker's counter (design: every failed generation call
\* counts, a success resets).
RecordFailure(n) == IF n < FAILURE_THRESHOLD THEN n + 1 ELSE n

\* Faulty variant: a success leaves the counter as it is.
RecordSuccessKeeps(n) == n

RecordSuccess(n) == 0

\* The latest FAILURE_THRESHOLD outcomes of generation calls (TRUE: success).
Remember(h, ok) ==
  LET h2 == Append(h, ok) IN
  IF Len(h2) > FAILURE_THRESHOLD THEN Tail(h2) ELSE h2

\* Faulty variant: a re-open keeps the cooldown it had.
NextCooldownSame(cooldown) == cooldown

\* Exponential growth of the cooldown on a re-open.
NextCooldown(cooldown) == 2 * cooldown

Opened(cooldown) == [status |-> "Open", cooldown |-> cooldown, trials |-> 0]

\* The breaker after a failed generation call; n is the counter with this
\* failure counted.  A failure while HalfOpen re-opens with a longer
\* cooldown; the FAILURE_THRESHOLD-th consecutive failure opens a closed
\* breaker.
OnFailure(b, n) ==
  IF b.status = "HalfOpen" THEN Opened(NextCooldown(b.cooldown))
  ELSE IF b.status = "Closed" /\ n >= FAILURE_THRESHOLD THEN Opened(b.cooldown)
  ELSE b

\* The breaker after a successful generation call: HalfOpen closes, with
\* the cooldown back at its base.
OnSuccess(b) == IF b.status = "HalfOpen" THEN ClosedBreaker ELSE b

\* The breaker sees a generation call go out: while HalfOpen it is a trial.
CallStarted(b) ==
  IF b.status = "HalfOpen" THEN [b EXCEPT !.trials = b.trials + 1] ELSE b

\* The breaker records the outcome of a generation call.
BreakerRecords(ok) ==
  /\ consecutiveFailures' =
       IF ok THEN RecordSuccess(consecutiveFailures) ELSE RecordFailure(consecutiveFailures)
  /\ breaker' =
       IF ok THEN OnSuccess(breaker)
       ELSE OnFailure(breaker, RecordFailure(consecutiveFailures))
  /\ outcomes' = Remember(outcomes, ok)

\* The cooldown has elapsed: Open becomes HalfOpen.
CooldownElapsed ==
  /\ breaker.status = "Open"
  /\ breaker' = [breaker EXCEPT !.status = "HalfOpen"]
  /\ last' = [op |-> "step"]
  /\ UNCHANGED <<sideVars, timer, route, fallback, retry, userPhoto, initPc, service, isReady, currentIndex, jobQueue,
                 activeWorkers, inflight, cache, consecutiveFailures, outcomes,
                 recentWindow, feed, workerStats>>

\* Faulty variant: the validation is left out.
AfterFetchProductUnchecked(j, product) ==
  [j EXCEPT !.pc = "fetchImage", !.product = product]

\* Faulty variant: the validation runs inside retryWithBackoff's fn, so
\* an invalid product counts as a failed attempt and is retried.
AfterFetchProductRetried(j, product) ==
  IF ~validateProductForGeneration(product)
  THEN [j EXCEPT !.pc = "backoff", !.calls = j.calls + 1, !.fails = j.fails + 1]
  ELSE [j EXCEPT !.pc = "fetchImage", !.product = product]

\* generateVirtualTryOn step 1: validate, throw on failure; otherwise
\* step 2, await fetchProductImage(image_urls[0]).
AfterFetchProduct(j, product) ==
  IF ~validateProductForGeneration(product)
  THEN Caught(j)
  ELSE [j EXCEPT !.pc = "fetchImage", !.product = product]

\* fetchProduct() resolved with `product`.
FetchProductResolved(j, product) ==
  /\ j.pc = "fetchProduct"
  /\ inflight' = Replace(j, AfterFetchProduct(j, product))
  /\ last' = IF validateProductForGeneration(product)
              THEN [op |-> "step"]
              ELSE [op |-> "invalidProduct", position |-> j.position]
  /\ UNCHANGED <<sideVars, timer, route, fallback, retry, userPhoto, initPc, service, isReady, currentIndex, jobQueue,
                 activeWorkers, cache, consecutiveFailures,
                 breaker, outcomes, recentWindow, feed, workerStats>>

\* Faulty variant: the catalog's failure is reported to the breaker as if a
\* generation call had failed.
FetchProductRejectedCounted(j) ==
  /\ j.pc = "fetchProduct"
  /\ inflight' = Replace(j, Caught(j))
  /\ last' = [op |-> "catalogFailed", position |-> j.position]
  /\ BreakerRecords(FALSE)
  /\ UNCHANGED <<sideVars, timer, route, fallback, retry, userPhoto, initPc, service, isReady, currentIndex, jobQueue,
                 activeWorkers, cache, recentWindow, feed, workerStats>>

\* fetchProduct() rejected (catalog unavailable).
FetchProductRejected(j) ==
  /\ j.pc = "fetchProduct"
  /\ inflight' = Replace(j, Caught(j))
  /\ last' = [op |-> "catalogFailed", position |-> j.position]
  /\ UNCHANGED <<sideVars, timer, route, fallback, retry, userPhoto, initPc, service, isReady, currentIndex, jobQueue,
                 activeWorkers, cache, consecutiveFailures,
                 breaker, outcomes, recentWindow, feed, workerStats>>

\* retryWithBackoff calls fn(): the POST to the Rork API is sent.
CallApi(j, retries) ==
  [j EXCEPT !.pc = "api", !.retries = retries, !.calls = j.calls + 1]

\* fetchProductImage resolved: build the prompt, retryWithBackoff(fn).
FetchImageResolved(j) ==
  /\ j.pc = "fetchImage"
  /\ inflight' = Replace(j, CallApi(j, MAX_RETRIES))
  /\ last' = [op |-> "step"]
  /\ UNCHANGED <<sideVars, timer, route, fallback, retry, userPhoto, initPc, service, isReady, currentIndex, jobQueue,
                 activeWorkers, cache, consecutiveFailures,
                 outcomes, recentWindow, feed, workerStats>>

\* fetchProductImage rejected (image fetch failed).
FetchImageRejected(j) ==
  /\ j.pc = "fetchImage"
  /\ inflight' = Replace(j, Caught(j))
  /\ last' = [op |-> "step"]
  /\ UNCHANGED <<sideVars, timer, route, fallback, retry, userPhoto, initPc, service, isReady, currentIndex, jobQueue,
                 activeWorkers, cache, consecutiveFailures,
                 breaker, outcomes, recentWindow, feed, workerStats>>

\* retryWithBackoff's catch: rethrow when retries === 0 (processJob's catch
\* takes over), otherwise wait for the backoff.
AfterApiFailure(j) ==
  IF j.retries = 0
  THEN Caught([j EXCEPT !.fails = j.fails + 1])
  ELSE [j EXCEPT !.pc = "backoff", !.fails = j.fails + 1]

\* fn() threw: the API answered not-ok, timed out, or sent a bad body.
ApiFailed(j) ==
  /\ j.pc = "api"
  /\ inflight' = Replace(j, AfterApiFailure(j))
  /\ last' = [op |-> "step"]
  /\ UNCHANGED <<sideVars, timer, route, fallback, retry, userPhoto, initPc, service, isReady, currentIndex, jobQueue,
                 activeWorkers, cache, recentWindow, feed, workerStats>>

\* Faulty variant: the recursive call passes `retries` on unchanged.
RetriesLeftUnchanged(retries) == retries

\* the `retries - 1` of the recursive call
RetriesLeft(retries) == retries - 1

\* The backoff timer fired: retryWithBackoff(fn, retries - 1).
BackoffElapsed(j) ==
  /\ j.pc = "backoff"
  /\ inflight' = Replace(j, CallApi(j, RetriesLeft(j.retries)))
  /\ last' = [op |-> "step"]
  /\ UNCHANGED <<sideVars, timer, route, fallback, retry, userPhoto, initPc, service, isReady, currentIndex, jobQueue,
                 activeWorkers, cache, consecutiveFailures,
                 outcomes, recentWindow, feed, workerStats>>

\* processJob settled for job j: with a result (ok) or without one.
Settled(j, ok) ==
  [op |-> "settled", position |-> j.position, ok |-> ok, retries |-> j.retries,
   calls |-> j.calls, fails |-> j.fails]

\* Faulty variant: the result is returned but not stored.
CacheResultSkipped(c, j, image) == c

\* Faulty variant: a result for a position the cursor has left is dropped.
CacheResultInWindowOnly(c, j, image) ==
  IF j.position \in currentIndex .. currentIndex + WINDOW_SIZE - 1
  THEN [c EXCEPT ![j.position] = ReadyEntry(j.product, image)]
  ELSE c

\* Faulty variant: the result is stored under the next position's key.
CacheResultElsewhere(c, j, image) ==
  [c EXCEPT ![(j.position + 1) % (MaxPosition + 1)] = ReadyEntry(j.product, image)]

\* The entry processJob writes on success: imageCache.set(job.position, ...)
CacheResult(c, j, image) == [c EXCEPT ![j.position] = ReadyEntry(j.product, image)]

\* What processJob's catch block leaves in the cache: nothing is written.
CacheFailure(c, j) == c

\* Faulty variant: a settled job keeps its slot.
ReleasedNever(active) == active

\* .finally(() => this.activeWorkers--)
Released(active) == active - 1

\* fn() returned the generated image: processJob caches it and resolves.
ApiSucceeded(j, image) ==
  /\ j.pc = "api"
  /\ cache' = CacheResult(cache, j, image)
  /\ inflight' = inflight (-) SetToBag({j})
  /\ activeWorkers' = Released(activeWorkers)
  /\ last' = Settled(j, TRUE)
  /\ UNCHANGED <<sideVars, timer, route, fallback, retry, userPhoto, initPc, service, isReady, currentIndex, jobQueue,
                 recentWindow, feed, workerStats>>

\* fetchDifferentProduct() resolved: the catch block ends, processJob
\* resolves without a result.
FetchDifferentResolved(j) ==
  /\ j.pc = "fetchDifferent"
  /\ cache' = CacheFailure(cache, j)
  /\ inflight' = inflight (-) SetToBag({j})
  /\ activeWorkers' = Released(activeWorkers)
  /\ last' = Settled(j, FALSE)
  /\ UNCHANGED <<sideVars, timer, route, fallback, retry, userPhoto, initPc, service, isReady, currentIndex, jobQueue,
                 consecutiveFailures,
                 breaker, outcomes, recentWindow, feed, workerStats>>

\* processJob rejected for job j: its catch block threw.
Rejected(j) ==
  [op |-> "rejected", position |-> j.position, ok |-> FALSE, retries |-> j.retries,
   calls |-> j.calls, fails |-> j.fails]

\* Faulty variant: the slot is released with .then, which a rejected
\* promise skips.
FetchDifferentRejectedLeaks(j) ==
  /\ j.pc = "fetchDifferent"
  /\ cache' = CacheFailure(cache, j)
  /\ inflight' = inflight (-) SetToBag({j})
  /\ last' = Rejected(j)
  /\ UNCHANGED <<sideVars, timer, route, fallback, retry, userPhoto, initPc, service, isReady, currentIndex, jobQueue,
                 activeWorkers, consecutiveFailures,
                 breaker, outcomes, recentWindow, feed, workerStats>>

\* fetchDifferentProduct() rejected inside the catch block: processJob
\* rejects; .finally still runs.
FetchDifferentRejected(j) ==
  /\ j.pc = "fetchDifferent"
  /\ cache' = CacheFailure(cache, j)
  /\ inflight' = inflight (-) SetToBag({j})
  /\ activeWorkers' = Released(activeWorkers)
  /\ last' = Rejected(j)
  /\ UNCHANGED <<sideVars, timer, route, fallback, retry, userPhoto, initPc, service, isReady, currentIndex, jobQueue,
                 consecutiveFailures,
                 breaker, outcomes, recentWindow, feed, workerStats>>

\* The worker pool as the sources have it: no circuit breaker takes part.
Next ==
  \/ Initialize /\ UNCHANGED consecutiveFailures
  \/ \E c \in 0 .. MaxCursor : SetCurrentIndex(c)
  \/ \E j \in Jobs : \E product \in Products : FetchProductResolved(j, product)
  \/ \E j \in Jobs : FetchProductRejected(j)
  \/ \E j \in Jobs : FetchImageResolved(j) /\ UNCHANGED breaker
  \/ \E j \in Jobs : FetchImageRejected(j)
  \/ \E j \in Jobs : ApiFailed(j) /\ UNCHANGED <<consecutiveFailures, breaker, outcomes>>
  \/ \E j \in Jobs : BackoffElapsed(j) /\ UNCHANGED breaker
  \/ \E j \in Jobs : ApiSucceeded(j, GeneratedImage) /\ UNCHANGED <<consecutiveFailures, breaker, outcomes>>
  \/ \E j \in Jobs : FetchDifferentResolved(j)
  \/ \E j \in Jobs : FetchDifferentRejected(j)

Spec == Init /\ [][Next]_vars

\* The pool working through the initial positions (the user does not
\* scroll), with the design's circuit breaker counting the outcome of every
\* generation call.  The worker code never asks the breaker: it only
\* reports to it.
NextBreaker ==
  \/ Initialize /\ UNCHANGED consecutiveFailures
  \/ \E j \in Jobs : \E product \in Products : FetchProductResolved(j, product)
  \/ \E j \in Jobs : FetchProductRejected(j)
  \/ \E j \in Jobs : FetchImageResolved(j) /\ breaker' = CallStarted(breaker)
  \/ \E j \in Jobs : FetchImageRejected(j)
  \/ \E j \in Jobs : ApiFailed(j) /\ BreakerRecords(FALSE)
  \/ \E j \in Jobs : BackoffElapsed(j) /\ breaker' = CallStarted(breaker)
  \/ \E j \in Jobs : ApiSucceeded(j, GeneratedImage) /\ BreakerRecords(TRUE)
  \/ \E j \in Jobs : FetchDifferentResolved(j)
  \/ \E j \in Jobs : FetchDifferentRejected(j)
  \/ CooldownElapsed

SpecBreaker == Init /\ [][NextBreaker]_vars

\* The pool while the user jumps ahead in the feed, past the positions the
\* initial window queued, and back.  The feed screen lets the user scroll
\* once isReady is set.
NextScroll ==
  \/ Initialize /\ UNCHANGED consecutiveFailures
  \/ \E c \in {0, FarCursor} : isReady /\ SetCurrentIndex(c)
  \/ \E j \in Jobs : \E product \in Products : FetchProductResolved(j, product)
  \/ \E j \in Jobs : FetchProductRejected(j)
  \/ \E j \in Jobs : FetchImageResolved(j) /\ UNCHANGED breaker
  \/ \E j \in Jobs : FetchImageRejected(j)
  \/ \E j \in Jobs : ApiFailed(j) /\ UNCHANGED <<consecutiveFailures, breaker, outcomes>>
  \/ \E j \in Jobs : BackoffElapsed(j) /\ UNCHANGED breaker
  \/ \E j \in Jobs : ApiSucceeded(j, GeneratedImage) /\ UNCHANGED <<consecutiveFailures, breaker, outcomes>>
  \/ \E j \in Jobs : FetchDifferentResolved(j)
  \/ \E j \in Jobs : FetchDifferentRejected(j)

SpecScroll == Init /\ [][NextScroll]_vars

\* The pool with the feed screen mounted: the user scrolls once isReady is
\* set, and the update loop ticks.  The update loop reads the cache, the
\* pool size and the latest window only; a job reaches them by ending with
\* a result or without one, so the API's failures and retries are left to
\* Spec: here a job ends without a result when its product is invalid.
NextFeed ==
  \/ Initialize /\ UNCHANGED consecutiveFailures
  \/ \E c \in 0 .. MaxCursor : isReady /\ SetCurrentIndex(c)
  \/ UpdateLoop
  \/ \E j \in Jobs : \E product \in Products : FetchProductResolved(j, product)
  \/ \E j \in Jobs : FetchImageResolved(j) /\ UNCHANGED breaker
  \/ \E j \in Jobs : ApiSucceeded(j, GeneratedImage) /\ UNCHANGED <<consecutiveFailures, breaker, outcomes>>
  \/ \E j \in Jobs : FetchDifferentResolved(j)

SpecFeed == Init /\ [][NextFeed]_vars

\* The pool while the user scrolls, with an API that answers each call with
\* one image or another.  A position becomes Ready when its job's call
\* succeeds, whichever call it is, so the API's failures and retries are
\* left to Spec: here a job ends without a result when its product is
\* invalid.
NextReady ==
  \/ Initialize /\ UNCHANGED consecutiveFailures
  \/ \E c \in 0 .. MaxCursor : isReady /\ SetCurrentIndex(c)
  \/ \E j \in Jobs : \E product \in Products : FetchProductResolved(j, product)
  \/ \E j \in Jobs : FetchImageResolved(j) /\ UNCHANGED breaker
  \/ \E j \in Jobs : \E image \in Images :
       ApiSucceeded(j, image) /\ UNCHANGED <<consecutiveFailures, breaker, outcomes>>
  \/ \E j \in Jobs : FetchDifferentResolved(j)

SpecReady == Init /\ [][NextReady]_vars

\* ------------------------------------- RorkAIClient.retryWithBackoff alone

\* What the worker pool and the FeedProvider hold.
feedVars ==
  <<userPhoto, initPc, service, isReady, currentIndex, jobQueue, activeWorkers,
    inflight, cache, consecutiveFailures, breaker, outcomes, recentWindow, feed,
    workerStats, last>>

\* The errors fn() may throw: the API answered 429, answered 5xx, or the
\* request itself failed.
Errors == {"RateLimitedError", "ServerError", "NetworkError"}

\* Faulty variant: every retry waits one second.
BackoffDelayFlat(retries) == 1000

\* the delay of the catch block's setTimeout; the error is not looked at
BackoffDelay(retries) == 1000 * (4 - retries)

\* catch (error): rethrow when no retry is left, otherwise set the timer.
AfterThrow(r, error) ==
  IF r.retries = 0
  THEN [r EXCEPT !.pc = "threw", !.errors = Append(@, error), !.thrown = error]
  ELSE [r EXCEPT !.pc = "wait", !.errors = Append(@, error),
                 !.delays = Append(@, BackoffDelay(r.retries))]

\* retryWithBackoff(fn) is called: retries defaults to MAX_RETRIES, fn()
\* is awaited.
RetryWithBackoff ==
  /\ retry.pc = "idle"
  /\ retry' = [retry EXCEPT !.pc = "call", !.calls = 1]
  /\ UNCHANGED <<sideVars, timer, route, fallback, feedVars>>

\* fn() resolved: its result is returned.
FnResolved ==
  /\ retry.pc = "call"
  /\ retry' = [retry EXCEPT !.pc = "returned"]
  /\ UNCHANGED <<sideVars, timer, route, fallback, feedVars>>

\* fn() threw `error`.
FnThrew(error) ==
  /\ retry.pc = "call"
  /\ retry' = AfterThrow(retry, error)
  /\ UNCHANGED <<sideVars, timer, route, fallback, feedVars>>

\* The timer fired: retryWithBackoff(fn, retries - 1) awaits fn() again.
TimerFired ==
  /\ retry.pc = "wait"
  /\ retry' = [retry EXCEPT !.pc = "call", !.retries = RetriesLeft(@),
                             !.calls = @ + 1]
  /\ UNCHANGED <<sideVars, timer, route, fallback, feedVars>>

\* ------------------------------------------------- generateWithFallback

\* The catch block fetches one different product.
SUBSTITUTION_CAP == 1

\* catch (error): await fetchDifferentProduct().
FallbackCaught(f) ==
  [f EXCEPT !.pc = "fetchDifferent", !.substitutions = @ + 1]

\* The try block: validate, throw 'Invalid product' or await
\* rorkClient.generate.
FallbackTry(f, product) ==
  IF validateProductForGeneration(product)
  THEN [f EXCEPT !.pc = "generate", !.tried = <<product>>, !.generateCalls = 1]
  ELSE FallbackCaught([f EXCEPT !.tried = <<product>>])

\* Faulty variant: an invalid substitute is replaced by another one.
AfterDifferentAgain(f, nextProduct) ==
  IF validateProductForGeneration(nextProduct)
  THEN [f EXCEPT !.pc = "generateNext", !.tried = Append(@, nextProduct),
                 !.generateCalls = @ + 1]
  ELSE FallbackCaught([f EXCEPT !.tried = Append(@, nextProduct)])

\* The catch block after fetchDifferentProduct(): generate with a valid
\* substitute, otherwise throw 'No valid products available'.
AfterDifferent(f, nextProduct) ==
  IF validateProductForGeneration(nextProduct)
  THEN [f EXCEPT !.pc = "generateNext", !.tried = Append(@, nextProduct),
                 !.generateCalls = @ + 1]
  ELSE [f EXCEPT !.pc = "threw", !.tried = Append(@, nextProduct),
                 !.error = "No valid products available"]

\* generateWithFallback(userBase64, product) is called.
GenerateWithFallback(product) ==
  /\ fallback.pc = "idle"
  /\ fallback' = FallbackTry(fallback, product)
  /\ UNCHANGED <<sideVars, timer, route, retry, feedVars>>

\* rorkClient.generate resolved, in the try block or in the catch block.
GenerateResolved ==
  /\ fallback.pc \in {"generate", "generateNext"}
  /\ fallback' = [fallback EXCEPT !.pc = "returned"]
  /\ UNCHANGED <<sideVars, timer, route, retry, feedVars>>

\* rorkClient.generate rejected: in the try block the catch block takes
\* over, in the catch block the error leaves the function.
GenerateRejected ==
  /\ fallback.pc \in {"generate", "generateNext"}
  /\ fallback' = IF fallback.pc = "generate"
                 THEN FallbackCaught(fallback)
                 ELSE [fallback EXCEPT !.pc = "threw", !.error = "generate"]
  /\ UNCHANGED <<sideVars, timer, route, retry, feedVars>>

\* fetchDifferentProduct() resolved with nextProduct.
DifferentResolved(nextProduct) ==
  /\ fallback.pc = "fetchDifferent"
  /\ fallback' = AfterDifferent(fallback, nextProduct)
  /\ UNCHANGED <<sideVars, timer, route, retry, feedVars>>

\* fetchDifferentProduct() rejected inside the catch block.
DifferentRejected ==
  /\ fallback.pc = "fetchDifferent"
  /\ fallback' = [fallback EXCEPT !.pc = "threw", !.error = "fetchDifferentProduct"]
  /\ UNCHANGED <<sideVars, timer, route, retry, feedVars>>

NextClient ==
  \/ RetryWithBackoff
  \/ FnResolved
  \/ \E error \in Errors : FnThrew(error)
  \/ TimerFired
  \/ \E product \in Products : GenerateWithFallback(product)
  \/ GenerateResolved
  \/ GenerateRejected
  \/ \E nextProduct \in Products : DifferentResolved(nextProduct)
  \/ DifferentRejected

SpecClient == Init /\ [][NextClient]_vars

\* ------------------------------------------------- Index and onboarding

\* Index.checkUserPhoto: to the feed with a stored photo, otherwise (and on
\* an error) to onboarding.
CheckUserPhoto ==
  /\ route = "index"
  /\ \/ route' = IF userPhoto THEN "feed" ELSE "onboarding"
     \/ route' = "onboarding"
  /\ UNCHANGED <<sideVars, timer, fallback, retry, initPc, service, isReady,
                 currentIndex, jobQueue, activeWorkers, inflight, cache,
                 consecutiveFailures, breaker, outcomes, recentWindow, feed,
                 workerStats, userPhoto, last>>

\* What the onboarding screen's handlers leave alone.
beyondOnboarding ==
  <<db, testApi, monitor, mounted, timer, fallback, retry, initPc, service,
    isReady, currentIndex, jobQueue, activeWorkers, inflight, cache,
    consecutiveFailures, breaker, outcomes, recentWindow, feed, workerStats>>

\* pickImage / takePhoto ended with an asset: setSelectedImage(uri).
PickImage ==
  /\ route = "onboarding"
  /\ ~onboarding.isLoading
  /\ onboarding' = [onboarding EXCEPT !.selectedImage = TRUE]
  /\ last' = [op |-> "pickImage"]
  /\ UNCHANGED <<userPhoto, route, beyondOnboarding>>

\* handleContinue up to its first await: alert and return without an
\* image, otherwise setIsLoading(true) and await convertToBase64.
HandleContinue ==
  /\ route = "onboarding"
  /\ onboarding.pc = "idle"
  /\ IF ~onboarding.selectedImage
     THEN /\ last' = [op |-> "photoRequired"]
          /\ UNCHANGED onboarding
     ELSE /\ onboarding' = [onboarding EXCEPT !.isLoading = TRUE, !.pc = "convert"]
          /\ last' = [op |-> "continue"]
  /\ UNCHANGED <<userPhoto, route, beyondOnboarding>>

\* Faulty variant: the catch block alerts but leaves isLoading set.
AfterContinueErrorStuck(o) == [o EXCEPT !.pc = "idle"]

\* handleContinue's catch block: log, alert, setIsLoading(false).
AfterContinueError(o) == [o EXCEPT !.isLoading = FALSE, !.pc = "idle"]

\* convertToBase64 resolved: await AsyncStorage.setItem.
ConvertResolved ==
  /\ onboarding.pc = "convert"
  /\ onboarding' = [onboarding EXCEPT !.pc = "store"]
  /\ last' = [op |-> "converted"]
  /\ UNCHANGED <<userPhoto, route, beyondOnboarding>>

\* convertToBase64 rejected.
ConvertRejected ==
  /\ onboarding.pc = "convert"
  /\ onboarding' = AfterContinueError(onboarding)
  /\ last' = [op |-> "continueFailed"]
  /\ UNCHANGED <<userPhoto, route, beyondOnboarding>>

\* AsyncStorage.setItem resolved: the photo is stored and the route is
\* replaced by the feed screen.
StoreResolved ==
  /\ onboarding.pc = "store"
  /\ userPhoto' = TRUE
  /\ route' = "feed"
  /\ onboarding' = [onboarding EXCEPT !.pc = "idle"]
  /\ last' = [op |-> "stored"]
  /\ UNCHANGED beyondOnboarding

\* AsyncStorage.setItem rejected: nothing was written.
StoreRejected ==
  /\ onboarding.pc = "store"
  /\ onboarding' = AfterContinueError(onboarding)
  /\ last' = [op |-> "continueFailed"]
  /\ UNCHANGED <<userPhoto, route, beyondOnboarding>>

\* What the event loop runs once its event is there: the mount effects and
\* the continuations of the processJob calls.
LaunchSteps ==
  \/ Initialize /\ UNCHANGED consecutiveFailures
  \/ CheckUserPhoto
  \/ ConvertResolved
  \/ ConvertRejected
  \/ StoreResolved
  \/ StoreRejected
  \/ \E j \in Jobs : \E product \in Products : FetchProductResolved(j, product)
  \/ \E j \in Jobs : FetchProductRejected(j)
  \/ \E j \in Jobs : FetchImageResolved(j) /\ UNCHANGED breaker
  \/ \E j \in Jobs : FetchImageRejected(j)
  \/ \E j \in Jobs : ApiFailed(j) /\ UNCHANGED <<consecutiveFailures, breaker, outcomes>>
  \/ \E j \in Jobs : BackoffElapsed(j) /\ UNCHANGED breaker
  \/ \E j \in Jobs : ApiSucceeded(j, GeneratedImage) /\ UNCHANGED <<consecutiveFailures, breaker, outcomes>>
  \/ \E j \in Jobs : FetchDifferentResolved(j)
  \/ \E j \in Jobs : FetchDifferentRejected(j)

\* The app from its start, the cursor left where it is: every request is
\* answered, one way or the other, and every pending handler is run.
NextLaunch ==
  \/ LaunchSteps
  \/ PickImage
  \/ HandleContinue

SpecLaunch == Init /\ [][NextLaunch]_vars /\ WF_vars(LaunchSteps)

\* The pool while the cursor jumps past the initial positions, with an API
\* that answers every call with an image: a job ends without a result only
\* when its product is invalid.
NextQueue ==
  \/ Initialize /\ UNCHANGED consecutiveFailures
  \/ \E c \in {0, FarCursor} : isReady /\ SetCurrentIndex(c)
  \/ \E j \in Jobs : \E product \in Products : FetchProductResolved(j, product)
  \/ \E j \in Jobs : FetchImageResolved(j) /\ UNCHANGED breaker
  \/ \E j \in Jobs : ApiSucceeded(j, GeneratedImage) /\ UNCHANGED <<consecutiveFailures, breaker, outcomes>>
  \/ \E j \in Jobs : FetchDifferentResolved(j)

SpecQueue == Init /\ [][NextQueue]_vars

\* The FeedProvider unmounts: the mount effect's cleanup clears the
\* interval that updateIntervalRef holds at that moment, if any.
Unmount ==
  /\ mounted
  /\ mounted' = FALSE
  /\ timer' = FALSE
  /\ last' = [op |-> "unmount"]
  /\ UNCHANGED <<db, testApi, monitor, onboarding, route, fallback, retry,
                 userPhoto, initPc, service, isReady, currentIndex, jobQueue,
                 activeWorkers, inflight, cache, consecutiveFailures, breaker,
                 outcomes, recentWindow, feed, workerStats>>

\* The FeedProvider from its mount to after its unmount: initialize()
\* resolves whenever the storage answers, the interval ticks while it is
\* set, and the processJob calls go on.
NextMount ==
  \/ Initialize /\ UNCHANGED consecutiveFailures
  \/ Unmount
  \/ UpdateLoop
  \/ \E j \in Jobs : \E product \in Products : FetchProductResolved(j, product)
  \/ \E j \in Jobs : FetchImageResolved(j) /\ UNCHANGED breaker
  \/ \E j \in Jobs : ApiSucceeded(j, GeneratedImage) /\ UNCHANGED <<consecutiveFailures, breaker, outcomes>>
  \/ \E j \in Jobs : FetchDifferentResolved(j)

SpecMount == Init /\ [][NextMount]_vars

\* ------------------------------------------------ catalog: feed_items

\* rebuild_feed_items keeps the first 3 images of a product (LIMIT 3).
FEED_IMAGE_LIMIT == 3

\* The tables are checked with two products and one image more than the
\* limit.
ProductIds == 1 .. 2

MaxImages == FEED_IMAGE_LIMIT + 1

SrcUrls == {HttpUrl, FtpUrl}

ImagePositions == 0 .. 1

Min(a, b) == IF a < b THEN a ELSE b

\* What the catalog's statements leave alone.
beyondCatalog ==
  <<testApi, monitor, onboarding, mounted, timer, route, fallback, retry, feedVars>>

\* INSERT INTO products: a row with a fresh id.
InsertProduct(id) ==
  /\ id \notin db.products
  /\ db' = [db EXCEPT !.products = @ \cup {id}]
  /\ UNCHANGED beyondCatalog

\* INSERT INTO product_images: product_id references a product, src_url is
\* NOT NULL, position defaults to 0, id is the next of the sequence.
InsertImage(product_id, src_url, position) ==
  /\ product_id \in db.products
  /\ Cardinality(db.product_images) < MaxImages
  /\ db' = [db EXCEPT !.product_images = @ \cup
             {[id |-> Cardinality(db.product_images) + 1, product_id |-> product_id,
               src_url |-> src_url, position |-> position]}]
  /\ UNCHANGED beyondCatalog

\* The rows of product_images of product p.
ImagesOf(images, p) == {i \in images : i.product_id = p}

\* ORDER BY i.position: every order of the rows in which position never
\* decreases (rows of equal position come in any order).
OrderedByPosition(rows) ==
  LET n == Cardinality(rows)
  IN {sq \in [1 .. n -> rows] :
        /\ \A a, b \in 1 .. n : a # b => sq[a] # sq[b]
        /\ \A a, b \in 1 .. n : a < b => sq[a].position <= sq[b].position}

\* LIMIT 3
Limited(sq) == SubSeq(sq, 1, Min(FEED_IMAGE_LIMIT, Len(sq)))

\* The feed_items row of product p built from the image rows `rows`.
FeedItem(p, rows) ==
  [product_id |-> p,
   image_urls |-> [k \in 1 .. Len(rows) |-> rows[k].src_url],
   image_positions |-> [k \in 1 .. Len(rows) |-> rows[k].position]]

\* The rows the SELECT may yield for product p: its ARRAY(SELECT ...) is
\* built from the first rows of one of the orders.
FeedItemsOf(images, p) ==
  {FeedItem(p, Limited(sq)) : sq \in OrderedByPosition(ImagesOf(images, p))}

\* The contents feed_items may have after the INSERT ... SELECT over
\* `products`: one row per product.
RECURSIVE Selected(_, _)
Selected(products, images) ==
  IF products = {}
  THEN {{}}
  ELSE LET p == CHOOSE id \in products : TRUE
           others == Selected(products \ {p}, images)
           mine == FeedItemsOf(images, p)
       IN {items \cup {item} : items \in others, item \in mine}

\* rebuild_feed_items(): TRUNCATE, then one row per product.
RebuildFeedItems ==
  /\ \E items \in Selected(db.products, db.product_images) :
       db' = [db EXCEPT !.feed_items = items]
  /\ UNCHANGED beyondCatalog

NextCatalog ==
  \/ \E id \in ProductIds : InsertProduct(id)
  \/ \E product_id \in ProductIds : \E src_url \in SrcUrls : \E position \in ImagePositions :
       InsertImage(product_id, src_url, position)
  \/ RebuildFeedItems

SpecCatalog == Init /\ [][NextCatalog]_vars

\* ---------------------------------------------------------- test-api.sh

\* What the scripts leave alone.
beyondScripts ==
  <<db, onboarding, mounted, timer, route, fallback, retry, feedVars>>

Endpoint == [kind |-> "endpoint", guarded |-> FALSE]

\* test_endpoint ... || echo: errexit is off inside the call.
GuardedEndpoint == [kind |-> "endpoint", guarded |-> TRUE]

Performance == [kind |-> "performance", guarded |-> FALSE]

\* The checks in the order the script makes them: three core endpoints,
\* five feed endpoints, the product detail, the response time, two error
\* cases.
CheckPlan ==
  <<Endpoint, Endpoint, Endpoint,
    Endpoint, Endpoint, Endpoint, Endpoint, Endpoint,
    GuardedEndpoint,
    Performance,
    Endpoint, Endpoint>>

\* What curl does for a check: it prints the expected status, another
\* status, or fails (and prints 000).
CurlResults == {"expected", "other", "curlFailed"}

\* Measured feed response times in ms, one per branch of the script.
Durations == {100, 300, 600}

\* set -e: a simple command that returns non-zero ends the script with
\* that status.
Errexit(t, code) == [t EXCEPT !.pc = "exited", !.exit = code]

\* test_endpoint's if: PASS and return 0, or FAIL and return 1.
Compared(t, matches) ==
  IF matches
  THEN [t EXCEPT !.PASSED = @ + 1]
  ELSE [t EXCEPT !.FAILED = @ + 1]

\* One test_endpoint call.
TestEndpoint(result) ==
  /\ testApi.pc = "checks"
  /\ testApi.check < Len(CheckPlan)
  /\ CheckPlan[testApi.check + 1].kind = "endpoint"
  /\ LET guarded == CheckPlan[testApi.check + 1].guarded
         counted == Compared(testApi, result = "expected")
     IN testApi' =
          IF result = "expected" \/ guarded
          THEN [counted EXCEPT !.check = @ + 1]
          ELSE IF result = "curlFailed"
               THEN Errexit(testApi, "curl")
               ELSE Errexit(counted, "1")
  /\ UNCHANGED <<monitor, beyondScripts>>

\* The response-time measurement: curl, then the three branches.
PerformanceTest(result, duration) ==
  /\ testApi.pc = "checks"
  /\ testApi.check < Len(CheckPlan)
  /\ CheckPlan[testApi.check + 1].kind = "performance"
  /\ testApi' =
       IF result = "curlFailed"
       THEN Errexit(testApi, "curl")
       ELSE [Compared(testApi, duration < 500) EXCEPT !.check = @ + 1]
  /\ UNCHANGED <<monitor, beyondScripts>>

\* PASS_RATE=$((PASSED * 100 / TOTAL))
PassRate(passed, failed) == (passed * 100) \div (passed + failed)

\* The summary: exit 0 when nothing failed or the pass rate is above 80.
TestSummary ==
  /\ testApi.pc = "checks"
  /\ testApi.check = Len(CheckPlan)
  /\ testApi' =
       [testApi EXCEPT
          !.pc = "summary",
          !.exit = IF testApi.FAILED = 0 THEN "0"
                   ELSE IF PassRate(testApi.PASSED, testApi.FAILED) > 80 THEN "0"
                   ELSE "1"]
  /\ UNCHANGED <<monitor, beyondScripts>>

\* ----------------------------------------------------------- monitor.sh

\* The HTTP status of the health call: 200, an error status, or 000 when
\* curl reached nobody.
HealthStatuses == {200, 503, 0}

\* What `jq -r '.catalog_size // 0'` leaves in catalog_size: a count, or
\* (as -1) something that is no positive number or no number at all.
CatalogSizes == {-1, 0, 5}

\* Measured feed response times in ms.
FeedDurations == {100, 200, 400, 600}

\* The health check: status of the call, whether jq is installed, and
\* the catalog size of the body.
HealthCheck(status, jq, size) ==
  /\ monitor.pc = "health"
  /\ monitor' = [monitor EXCEPT !.pc = "stats", !.health_status = status,
                                !.jq = jq,
                                !.catalog_size = IF jq THEN size ELSE -1]
  /\ UNCHANGED <<testApi, beyondScripts>>

\* The statistics section: prints, sets nothing the later sections read.
CatalogStatistics ==
  /\ monitor.pc = "stats"
  /\ monitor' = [monitor EXCEPT !.pc = "feed"]
  /\ UNCHANGED <<testApi, beyondScripts>>

\* The feed section: duration of the call.
FeedPerformance(duration) ==
  /\ monitor.pc = "feed"
  /\ monitor' = [monitor EXCEPT !.pc = "alerts", !.duration = duration]
  /\ UNCHANGED <<testApi, beyondScripts>>

\* 1 when the condition of an alert holds
Raised(condition) == IF condition THEN 1 ELSE 0

\* The alert section: API down, catalog empty (with jq), slow response.
Alerts(m) ==
  Raised(m.health_status # 200)
    + Raised(m.jq /\ m.catalog_size = 0)
    + Raised(m.duration > 500)

AlertStatus ==
  /\ monitor.pc = "alerts"
  /\ monitor' = [monitor EXCEPT !.pc = "summary", !.ALERTS = Alerts(monitor)]
  /\ UNCHANGED <<testApi, beyondScripts>>

\* The summary's if / elif / else.
SystemStatus(m) ==
  IF m.health_status = 200 /\ m.duration < 300 /\ m.catalog_size > 0
  THEN "HEALTHY"
  ELSE IF m.health_status = 200 THEN "DEGRADED" ELSE "CRITICAL"

MonitorSummary ==
  /\ monitor.pc = "summary"
  /\ monitor' = [monitor EXCEPT
                   !.pc = "done",
                   !.status = SystemStatus(monitor),
                   !.exit = IF SystemStatus(monitor) = "CRITICAL" THEN "1" ELSE "0"]
  /\ UNCHANGED <<testApi, beyondScripts>>

NextScripts ==
  \/ \E result \in CurlResults : TestEndpoint(result)
  \/ \E result \in CurlResults : \E duration \in Durations :
       PerformanceTest(result, duration)
  \/ TestSummary
  \/ \E status \in HealthStatuses : \E jq \in BOOLEAN : \E size \in CatalogSizes :
       HealthCheck(status, jq, size)
  \/ CatalogStatistics
  \/ \E duration \in FeedDurations : FeedPerformance(duration)
  \/ AlertStatus
  \/ MonitorSummary

SpecScripts == Init /\ [][NextScripts]_vars

\* ------------------------------------------------------------ properties

JustEnsured == last.op = "ensure"

WindowOf(window) == {window[i] : i \in 1 .. Len(window)}

JustSettled == last.op = "settled"

\* C1 (single-flight): whatever windows were enqueued, initial or
\* overlapping, no position is being executed by two processJob calls at
\* the same time.
C1_SingleFlight == \A p \in Positions : InFlightCount(p) <= 1

\* An overlapping window was just enqueued while that position was being
\* executed, next to another running job.
C1_Witness ==
  /\ JustEnsured
  /\ currentIndex > 0
  /\ \E p \in WindowOf(last.window) : InFlightCount(p) = 1 /\ p < INITIAL_POSITIONS
  /\ BagCardinality(inflight) >= 2

\* C2 (bounded concurrency): activeWorkers stays within 0 .. MAX_WORKERS,
\* however many positions are queued and however often processQueue runs
\* while earlier jobs are in flight.
C2_BoundedConcurrency == 0 <= activeWorkers /\ activeWorkers <= MAX_WORKERS

\* processQueue was just run again by a cursor change with the pool full
\* and jobs left waiting.
C2_Witness ==
  /\ JustEnsured
  /\ currentIndex > 0
  /\ activeWorkers = MAX_WORKERS
  /\ Len(jobQueue) > 0

\* C3 (idempotent window): right after EnsureWindow (addJobs, then the
\* caller's processQueue), the same call made again enqueues nothing: the
\* queue, the cache and the pool are what they were.
C3_IdempotentWindow ==
  JustEnsured =>
    LET again == addJobs(jobQueue, cache, last.window)
        rerun == processQueue(again.jobQueue, activeWorkers, inflight)
    IN /\ again.jobQueue = jobQueue
       /\ again.cache = cache
       /\ rerun.jobQueue = jobQueue
       /\ rerun.activeWorkers = activeWorkers
       /\ rerun.inflight = inflight

\* The first call did enqueue: a job of its window is still waiting.
C3_Witness ==
  /\ JustEnsured
  /\ \E i \in 1 .. Len(jobQueue) : jobQueue[i].position \in WindowOf(last.window)

\* C4 (window coverage), as claimed: right after EnsureWindow every
\* position of the window is Ready, being executed, or queued exactly once
\* at attempt 0, and no position is queued twice.
C4_WindowCoverage ==
  JustEnsured =>
    /\ \A p \in WindowOf(last.window) :
         \/ cache[p].state = "Ready"
         \/ InFlightCount(p) >= 1
         \/ /\ QueuedCount(jobQueue, p) = 1
            /\ \A i \in 1 .. Len(jobQueue) :
                 jobQueue[i].position = p => jobQueue[i].attempt = 0
    /\ \A p \in Positions : QueuedCount(jobQueue, p) <= 1

\* C5 (frame of EnsureWindow): a handler that calls addJobs leaves every
\* position that was Ready or being executed as it was: same entry, no
\* further queued job, no further processJob call.
C5_EnsureFrame ==
  [][last'.op = "ensure" =>
       \A p \in Positions :
         (cache[p].state = "Ready" \/ InFlightCount(p) >= 1) =>
           /\ cache'[p] = cache[p]
           /\ QueuedCount(jobQueue', p) <= QueuedCount(jobQueue, p)
           /\ InFlightCount(p)' = InFlightCount(p)]_vars

\* A window was just enqueued that holds a Ready position and a position
\* whose job was already past its first await.
C5_Witness ==
  /\ JustEnsured
  /\ \E p \in WindowOf(last.window) : cache[p].state = "Ready"
  /\ \E j \in Jobs : j.position \in WindowOf(last.window) /\ j.pc # "fetchProduct"

\* C6 (terminal failure visibility), as claimed: a job that settled without
\* a result leaves an entry that getEntries reports as Failed.
C6_FailureVisible ==
  (JustSettled /\ ~last.ok) =>
    getEntries(cache, <<last.position>>)[1].state = "Failed"

\* C7 (retry exhaustion), as claimed: no job makes more than
\* 1 + MAX_RETRIES generation calls, and a job that has used them all
\* leaves its position Failed, with its worker slot released and no job
\* left for it.
C7_RetryExhaustion ==
  /\ \A j \in Jobs : j.calls <= MAX_RETRIES + 1
  /\ (JustSettled /\ ~last.ok /\ last.fails = MAX_RETRIES + 1) =>
       /\ cache[last.position].state = "Failed"
       /\ InFlightCount(last.position) = 0
       /\ QueuedCount(jobQueue, last.position) = 0

\* the attempt number of the call retryWithBackoff makes with `retries`
\* left (the factor of its delay, 4 - retries)
AttemptNumber(retries) == (MAX_RETRIES + 1) - retries

C9_NoGenerationWithoutImage ==
  /\ \A j \in Jobs :
       j.pc \in {"fetchImage", "api", "backoff"} => validateProductForGeneration(j.product)
  /\ \A j \in Jobs : j.calls > 0 => j.pc \in {"api", "backoff", "fetchDifferent"}
  /\ last.op = "invalidProduct" =>
       \A j \in Jobs : j.position = last.position => j.pc = "fetchDifferent" /\ j.calls = 0

\* An invalid product was just rejected while another job's request to
\* the API is out.
C9_Witness ==
  /\ last.op = "invalidProduct"
  /\ \E j \in Jobs : j.pc = "api" /\ j.position # last.position

TrailingFailures(h) ==
  LET ok == {i \in 1 .. Len(h) : h[i]} IN
  IF ok = {} THEN Len(h)
  ELSE Len(h) - (CHOOSE m \in ok : \A k \in ok : k <= m)

\* This step is a generation call failing (retryWithBackoff's catch).
ApiFailureStep ==
  \E j \in Jobs : j.pc = "api" /\ inflight' = Replace(j, AfterApiFailure(j))

\* This step is a generation call succeeding.
ApiSuccessStep ==
  /\ last'.op = "settled"
  /\ last'.ok
  /\ \E j \in Jobs : j.pc = "api" /\ inflight' = inflight (-) SetToBag({j})

\* This step sends a generation call to the API.
CallStartStep ==
  \E j \in Jobs : \E r \in 0 .. MAX_RETRIES :
    j.pc \in {"fetchImage", "backoff"} /\ inflight' = Replace(j, CallApi(j, r))

C12_OpenFailsFast == [][breaker.status = "Open" => ~CallStartStep]_vars

\* C13 (single HalfOpen trial), as claimed: while the breaker is HalfOpen
\* at most one call admitted since the cooldown elapsed is out.
C13_SingleTrial == breaker.status = "HalfOpen" => breaker.trials <= 1

Distance(position, cursor) ==
  IF position >= cursor THEN position - cursor ELSE cursor - position

\* Position p has strictly higher priority than q: nearer to the cursor,
\* or as near and smaller.
HigherPriority(p, q, cursor) ==
  \/ Distance(p, cursor) < Distance(q, cursor)
  \/ Distance(p, cursor) = Distance(q, cursor) /\ p < q

\* C17 (dequeue priority), as claimed: when processQueue has taken jobs, no
\* job left in the queue has a strictly higher priority, by distance from
\* the current cursor and then by position, than a job that was taken.
C17_DequeuePriority ==
  [][last'.op = "ensure" =>
       \A t \in RunningPositions' \ RunningPositions :
         \A i \in 1 .. Len(jobQueue') :
           ~HigherPriority(jobQueue'[i].position, t, currentIndex')]_vars

\* ------------------------------------------------------------ feed claims

JustUpdated == last.op = "update"

\* The Ready positions among those of the window.
ReadyIn(c, window) == {p \in WindowOf(window) : c[p].state = "Ready"}

\* The fraction h equals num / den (den > 0).
IsFraction(h, num, den) == h.den > 0 /\ h.num * den = num * h.den

RequestedPositions ==
  {ArrayFrom(n, from) : n \in 0 .. 2, from \in 0 .. MaxPosition - 1}

\* C19 (GetEntries is read-only): the update loop's getEntries call leaves
\* the cache, the queue, the pool and the running jobs as they were, and
\* the feed it stores has one entry per requested position, each the
\* position's entry; asked at that moment for any list of positions,
\* getEntries returns as many entries, and Pending for a position with no
\* entry.
C19_GetEntriesReadOnly ==
  [][last'.op = "update" =>
       /\ cache' = cache
       /\ jobQueue' = jobQueue
       /\ activeWorkers' = activeWorkers
       /\ inflight' = inflight
       /\ Len(feed') = ClosureIndex + WINDOW_SIZE
       /\ \A i \in 1 .. Len(feed') :
            /\ cache[i - 1].state # "Absent" => feed'[i] = cache[i - 1]
            /\ cache[i - 1].state = "Absent" => feed'[i].state = "Pending"
       /\ \A ps \in RequestedPositions :
            LET es == getEntries(cache, ps) IN
            /\ Len(es) = Len(ps)
            /\ \A i \in 1 .. Len(ps) :
                 /\ cache[ps[i]].state = "Absent" => es[i].state = "Pending"
                 /\ cache[ps[i]].state # "Absent" => es[i] = cache[ps[i]]]_vars

\* The feed was just read while jobs were running: it holds a Ready and a
\* Pending entry, and some position has no entry yet.
C19_Witness ==
  /\ JustUpdated
  /\ activeWorkers > 0
  /\ \E i, k \in 1 .. Len(feed) : feed[i].state = "Ready" /\ feed[k].state = "Pending"
  /\ \E p \in Positions : cache[p].state = "Absent"

\* C20 (Ready is terminal): once a position is Ready its entry, image and
\* product, stays as it is, and no job for it is queued or running, however
\* often its window is enqueued again.
C20_ReadyTerminal ==
  [][\A p \in Positions :
       /\ cache[p].state = "Ready" => cache'[p] = cache[p]
       /\ cache'[p].state = "Ready" =>
            /\ InFlightCount(p)' = 0
            /\ QueuedCount(jobQueue', p) = 0]_vars

\* A window was just enqueued again over two positions that are Ready with
\* different images, while another job is running.
C20_Witness ==
  /\ JustEnsured
  /\ currentIndex > 0
  /\ \E p, q \in WindowOf(last.window) :
       /\ cache[p].state = "Ready"
       /\ cache[q].state = "Ready"
       /\ cache[p].imageUrl # cache[q].imageUrl
  /\ activeWorkers > 0

\* A step in which job j fails: its call threw and it moves to the catch
\* block or to a backoff, or its catch block ends (resolved or rejected)
\* and processJob settles without a result.
FailureStep(j) ==
  \/ \E j2 \in BagToSet(inflight') :
       /\ j2.position = j.position
       /\ j2.pc \in {"fetchDifferent", "backoff"}
       /\ j2.pc # j.pc
       /\ inflight' = Replace(j, j2)
  \/ /\ j.pc = "fetchDifferent"
     /\ inflight' = inflight (-) SetToBag({j})

\* C21 (error isolation): a step in which one job fails, a rejection
\* inside its catch block included, leaves every other position's entry,
\* the queue, the service and the readiness flag as they were, and the
\* slot count still equals the number of calls in flight afterwards, so
\* a job that ended by failing has given its slot back.
C21_ErrorIsolation ==
  [][\A j \in Jobs :
       FailureStep(j) =>
         /\ \A p \in Positions \ {j.position} : cache'[p] = cache[p]
         /\ jobQueue' = jobQueue
         /\ service' = service
         /\ isReady' = isReady
         /\ activeWorkers' <= activeWorkers
         /\ activeWorkers' = BagCardinality(inflight')]_vars

\* C21 witness: a job's catch block has thrown while another call is in
\* flight, a job is queued, and the breaker has counted a failure.
C21_Witness ==
  /\ last.op = "rejected"
  /\ activeWorkers = 1
  /\ BagCardinality(inflight) = 1
  /\ jobQueue # <<>>
  /\ consecutiveFailures > 0

\* C22 (queue integrity): a handler that enqueues adds exactly one
\* outstanding job per position of its window that needed one, and every
\* job that left the queue in that step is being executed, once; a step of
\* a worker leaves the queue as it is and starts nothing.
C22_QueueIntegrity ==
  [][\A p \in Positions :
       IF last'.op = "ensure"
       THEN LET added == IF p \in WindowOf(last'.window) /\ NeedsJob(cache[p])
                         THEN 1 ELSE 0
            IN /\ QueuedCount(jobQueue', p) + InFlightCount(p)'
                    = QueuedCount(jobQueue, p) + InFlightCount(p) + added
               /\ InFlightCount(p)' >= InFlightCount(p)
       ELSE /\ QueuedCount(jobQueue', p) = QueuedCount(jobQueue, p)
            /\ InFlightCount(p)' <= InFlightCount(p)]_vars

\* C22 witness: a handler has just enqueued while jobs were already
\* waiting and running; some of the waiting jobs were started and two are
\* still queued.
C22_Witness ==
  /\ JustEnsured
  /\ currentIndex > 0
  /\ activeWorkers = MAX_WORKERS
  /\ Len(jobQueue) >= 2
  /\ \E p \in Positions : cache[p].state = "Ready"

\* C23 (queue drain): with the cursor left where it is, every queued job
\* is eventually taken from the queue by a worker.
C23_QueueDrain ==
  \A p \in Positions :
    (QueuedCount(jobQueue, p) > 0) ~> (QueuedCount(jobQueue, p) = 0)

\* C24 (graceful degradation): every started job eventually ends, its
\* slot given back and its position Ready or Failed.
C24_JobsEnd ==
  \A p \in Positions :
    (InFlightCount(p) > 0) ~>
      (InFlightCount(p) = 0 /\ cache[p].state \in {"Ready", "Failed"})

\* The products generateWithFallback has looked at, none of them valid.
AllInvalid(tried) ==
  \A i \in 1 .. Len(tried) : ~validateProductForGeneration(tried[i])

\* C25 (bounded substitution): generateWithFallback fetches at most
\* SUBSTITUTION_CAP substitutes; rorkClient.generate is called once per
\* valid product and never for an invalid one; and when the product and
\* its substitute are all invalid the call ends by throwing 'No valid
\* products available' without a generation call.
C25_SubstitutionBounded ==
  /\ fallback.substitutions <= SUBSTITUTION_CAP
  /\ Len(fallback.tried) <= SUBSTITUTION_CAP + 1
  /\ fallback.generateCalls =
       Cardinality({i \in 1 .. Len(fallback.tried) :
                      validateProductForGeneration(fallback.tried[i])})
  /\ AllInvalid(fallback.tried) =>
       /\ fallback.generateCalls = 0
       /\ fallback.pc \in {"idle", "fetchDifferent", "threw"}
       /\ Len(fallback.tried) > SUBSTITUTION_CAP =>
            /\ fallback.pc = "threw"
            /\ fallback.error = "No valid products available"

\* C25 witness: an invalid product was replaced by another invalid one and
\* the call has thrown.
C25_Witness ==
  /\ fallback.pc = "threw"
  /\ Len(fallback.tried) = 2
  /\ AllInvalid(fallback.tried)
  /\ fallback.tried[1] # fallback.tried[2]
  /\ fallback.substitutions = SUBSTITUTION_CAP

\* C26 (ready after onboarding): once the photo is stored and the feed
\* screen is shown, the feed eventually becomes ready.
C26_ReadyAfterOnboarding == (route = "feed" /\ userPhoto) ~> isReady

\* The delay retryWithBackoff sets when its first call throws `error`.
FirstDelayAfter(error) ==
  AfterThrow([IdleRetry EXCEPT !.pc = "call", !.calls = 1], error).delays[1]

\* C27 (rate limit backs off longer): while retryWithBackoff waits after a
\* first call that was rate limited, the delay it set is strictly longer
\* than the one it sets after a first call that met a server error.
C27_RateLimitWaitsLonger ==
  (/\ retry.pc = "wait"
   /\ Len(retry.errors) = 1
   /\ retry.errors[1] = "RateLimitedError")
    => retry.delays[1] > FirstDelayAfter("ServerError")

C30_SlotAccounting ==
  /\ activeWorkers = BagCardinality(inflight)
  /\ activeWorkers >= 0
  /\ inflight = EmptyBag => activeWorkers = 0

\* C30 witness: the last running job has settled after the cursor moved,
\* results are cached and the pool is idle.
C30_Witness ==
  /\ last.op \in {"settled", "rejected"}
  /\ currentIndex > 0
  /\ inflight = EmptyBag
  /\ activeWorkers = 0
  /\ \E p \in Positions : cache[p].state = "Ready"

\* The delays of MAX_RETRIES = 3 retries, in ms.
RetryDelays == <<1000, 2000, 3000>>

C31_NoCancellation ==
  [][/\ last'.op = "ensure" =>
          \A j \in Jobs : CopiesIn(j, inflight') >= CopiesIn(j, inflight)
     /\ \A j \in Jobs :
          (j.pc = "api" /\ last' = Settled(j, TRUE)) =>
            LET entry == getEntries(cache', <<j.position>>)[1]
            IN /\ entry.state = "Ready"
               /\ entry.product = j.product
               /\ entry.imageUrl \in Images]_vars

\* C31 witness: the job of position 0, started by initialize(), has
\* returned its image after the cursor jumped past the initial positions.
C31_Witness ==
  /\ JustSettled
  /\ last.ok
  /\ last.position = 0
  /\ currentIndex = FarCursor
  /\ cache[0].state = "Ready"
  /\ getEntries(cache, <<0>>)[1].imageUrl = GeneratedImage

\* C32 (feed follows the cursor): after a tick of the update loop the
\* feed holds one entry per position 0 .. currentIndex + 29 (scaled:
\* currentIndex + WINDOW_SIZE entries).
C32_FeedFollowsCursor ==
  JustUpdated => Len(feed) = currentIndex + WINDOW_SIZE

\* C33 (initialisation): without a service nothing is enqueued or running,
\* no interval is set and isReady is false, whatever the cursor did;
\* initialize() without a stored photo creates no service; with a photo it
\* creates the service, sets the interval and isReady, and has enqueued
\* every initial position before processQueue ran, so that right after it
\* MAX_WORKERS of them are running and the others are queued.
C33_Initialisation ==
  /\ ~service =>
       /\ jobQueue = <<>>
       /\ inflight = EmptyBag
       /\ activeWorkers = 0
       /\ ~isReady
       /\ ~timer
       /\ \A p \in Positions : cache[p] = AbsentEntry
  /\ (initPc = "done" /\ ~userPhoto) => ~service
  /\ (initPc = "done" /\ userPhoto) =>
       /\ service
       /\ isReady
       /\ timer
       /\ \A p \in 0 .. INITIAL_POSITIONS - 1 : cache[p].state # "Absent"
  /\ (JustEnsured /\ last.window = ArrayFrom(INITIAL_POSITIONS, 0)) =>
       /\ activeWorkers = MAX_WORKERS
       /\ RunningPositions = 0 .. MAX_WORKERS - 1
       /\ jobQueue = [i \in 1 .. INITIAL_POSITIONS - MAX_WORKERS |->
                        NewJob(MAX_WORKERS + i - 1)]

\* C33 witness: the cursor moved before initialize() had read the stored
\* photo, and nothing was enqueued.
C33_Witness ==
  /\ last.op = "noService"
  /\ userPhoto
  /\ initPc = "loading"
  /\ currentIndex > 0
  /\ jobQueue = <<>>

\* C34 (timer cleanup): once the FeedProvider has unmounted, no interval
\* of the update loop is running.
C34_NoTimerAfterUnmount == ~mounted => ~timer

\* C35 (onboarding continue): the stored photo and the route away from
\* onboarding change only in the step in which setItem resolved, with an
\* image selected and the conversion done, and then both change; a
\* Continue without an image changes nothing; a failed conversion or write
\* leaves photo and route as they were and takes isLoading back to false.
C35_OnboardingContinue ==
  [][/\ (userPhoto' # userPhoto \/ (route = "onboarding" /\ route' # route)) =>
          /\ onboarding.selectedImage
          /\ onboarding.pc = "store"
          /\ onboarding.isLoading
          /\ last'.op = "stored"
          /\ userPhoto'
          /\ route' = "feed"
     /\ last'.op = "photoRequired" =>
          /\ ~onboarding.selectedImage
          /\ userPhoto' = userPhoto
          /\ route' = route
          /\ onboarding' = onboarding
     /\ last'.op = "continueFailed" =>
          /\ userPhoto' = userPhoto
          /\ route' = route
          /\ onboarding.isLoading
          /\ ~onboarding'.isLoading
          /\ onboarding'.pc = "idle"]_vars

\* C35 witness: on a first launch the conversion or the write has just
\* failed; the user is still on the onboarding screen and can retry.
C35_Witness ==
  /\ last.op = "continueFailed"
  /\ route = "onboarding"
  /\ ~userPhoto
  /\ onboarding.selectedImage
  /\ ~onboarding.isLoading
  /\ onboarding.pc = "idle"

\* C36 (catalog image invariant): every row of feed_items has between
\* one and three image URLs, taken in the order of their positions.
C36_FeedItemsHaveImages ==
  \A item \in db.feed_items :
    /\ Len(item.image_urls) >= 1
    /\ Len(item.image_urls) <= FEED_IMAGE_LIMIT
    /\ \A a, b \in 1 .. Len(item.image_positions) :
         a < b => item.image_positions[a] <= item.image_positions[b]

\* C37 (test-api.sh reaches its summary): the script ends only in its
\* summary, after every check was made, with exit status 0 when nothing
\* failed or the pass rate is above 80 and 1 otherwise.
C37_AlwaysSummary ==
  testApi.exit # "none" =>
    /\ testApi.pc = "summary"
    /\ testApi.check = Len(CheckPlan)
    /\ testApi.PASSED + testApi.FAILED = Len(CheckPlan)
    /\ testApi.exit = "0" <=>
         (testApi.FAILED = 0 \/ PassRate(testApi.PASSED, testApi.FAILED) > 80)

\* C38 (monitor.sh status and alerts agree): at the end of a run the exit
\* status is 1 exactly when the health call did not return 200, and with
\* the API up the status is HEALTHY exactly when no alert was raised.
C38_StatusMatchesAlerts ==
  monitor.pc = "done" =>
    /\ monitor.exit = "1" <=> monitor.health_status # 200
    /\ monitor.health_status = 200 =>
         (monitor.status = "HEALTHY" <=> monitor.ALERTS = 0)

====
